---- MODULE Spec2Model ----
(***************************************************************************)
(* Model of taco's SCF wrapper (taco/methods/scf.py, scf_pyscf.py) and of  *)
(* the grid loop of the FDE script (taco/playground/fde_psi4.py).          *)
(*                                                                         *)
(* Numbers: matrices and energies are abstracted to integers.  A          *)
(* convergence threshold 1e-k is written k.  Densities on the grid are     *)
(* small naturals, functional values are in 1/1000 units.                  *)
(***************************************************************************)
EXTENDS Integers, Sequences, FiniteSets, TLC

VARIABLES
    \* ---- ScfPyScf object -------------------------------------------------
    numpy,          \* NumPy generation the program runs on (decides `ndarray != []`)
    nbasis,         \* number of basis functions of mol_pyscf (shape of the density matrix)
    heap,           \* solver objects, by reference
    scf_object,     \* self.scf_object   (a reference into heap)
    _scf_object,    \* self._scf_object  (a reference into heap)
    density,        \* self.density
    energy,         \* self.energy (a dict: a function whose domain holds its keys)
    call,           \* the last completed public call and what it did
    streak,         \* kernel runs during the current run of consecutive get_density calls
    kernel_at,      \* solver settings and kwargs at the moment kernel() last ran
    runs,           \* kernel runs so far
    \* ---- run_co_h2o_psi4 -------------------------------------------------
    shared_values,  \* whether compute_functional hands out the same result vectors each call
    grid,           \* grid.blocks(): a sequence of blocks, each a sequence of points
    pc,             \* position in the script
    b,              \* loop index
    values_,        \* result vectors of the functional, by handle
    ret, reta, retb,            \* handles returned by compute_functional
    exc_a, exc_b, exc_tot,
    et_a, et_b, et_tot,
    enad_xc, enad_t

scfVars == <<numpy, nbasis, heap, scf_object, _scf_object, density, energy,
             call, streak, kernel_at, runs>>
fdeVars == <<shared_values, grid, pc, b, values_, ret, reta, retb,
             exc_a, exc_b, exc_tot, et_a, et_b, et_tot, enad_xc, enad_t>>
vars == <<scfVars, fdeVars>>

\* Python's None is the empty tuple; a value v that may be None is <<v>>
None == <<>>
Some(v) == <<v>>
the(o) == o[1]

\* ------------------------------------------------------------------ bounds
MaxRuns == 2        \* kernel runs explored
MaxShift == 2       \* how far perturb_fock may move the core Hamiltonian
MaxBlocks == 2      \* grid blocks
MaxPoints == 2      \* points per block

\* =========================================================================
\*  ScfMethod / ScfPyScf
\* =========================================================================

\* the unperturbed core Hamiltonian of the molecule (pyscf computes it from mol)
Hcore0 == -2
\* pyscf's default convergence threshold of a fresh RHF/RKS object (1e-9)
DefaultConvTol == 9
\* get_density / get_energy call solve_scf(conv_tol=1e-12)
GetterConvTol == 12

Ids == {1, 2}
EmptyList == <<>>
EmptyDict == <<>>

NumpyBuilds == {"legacy", "v1_25", "v2_2"}   \* < 1.25, 1.25 .. 2.1, >= 2.2
Potentials == {-1, 1}
KwargKeys == {"conv_tol", "conv_tol_grad"}
KwargVals == {6, 12}

\* **scfkwargs: keyword arguments in call order, keys distinct
Kwargs ==
    {<<>>}
    \cup {<<[key |-> k, val |-> v]>> : k \in KwargKeys, v \in KwargVals}
    \cup {<<[key |-> "conv_tol", val |-> v], [key |-> "conv_tol_grad", val |-> w]>> :
             v \in KwargVals, w \in KwargVals}
    \cup {<<[key |-> "conv_tol_grad", val |-> w], [key |-> "conv_tol", val |-> v]>> :
             v \in KwargVals, w \in KwargVals}

GetterKwargs == <<[key |-> "conv_tol", val |-> GetterConvTol]>>

\* scf.RHF(mol) / dft.RKS(mol): a fresh solver object.  get_hcore = None
\* means the class method is in effect (no instance override).
NewScfObject ==
    [conv_tol |-> Some(DefaultConvTol), conv_tol_grad |-> None, attr |-> None,
     get_hcore |-> None, e_tot |-> None, mo |-> None]

\* obj.get_hcore()
get_hcore(obj) == IF obj.get_hcore = None THEN Hcore0 ELSE the(obj.get_hcore)

\* the energy kernel() converges to, a function of the core Hamiltonian in effect
kernel_e_tot(h) == h + 1

\* obj.kernel(): sets the results on the object it is called on
kernel(obj) ==
    [obj EXCEPT !.e_tot = Some(kernel_e_tot(get_hcore(obj))), !.mo = Some(get_hcore(obj))]

\* obj.make_rdm1(): an nbasis x nbasis ndarray
\* (an ndarray is the pair of its size n and its content)
make_rdm1(obj, n) == <<n, the(obj.mo)>>

\* copy(obj): a new object with the same attributes; the result is the heap
\* with the new object in it and the reference to it
copy_alias(h, ref) == [heap |-> h, ref |-> ref]
copy(h, ref) ==
    LET new == CHOOSE i \in Ids : i # ref
    IN  [heap |-> [h EXCEPT ![new] = h[ref]], ref |-> new]

\* `for attr in scfkwargs: self.scf_object.attr = scfkwargs[attr]`
RECURSIVE apply_kwargs(_, _)
apply_kwargs(obj, kw) ==
    IF kw = <<>> THEN obj
    ELSE apply_kwargs([obj EXCEPT !.attr = Some(Head(kw).val)], Tail(kw))

\* `if self.density != []`: "true", "false" or "raise" (ValueError)
\*   list != list            : list comparison
\*   (n,n) array != [], n > 1: shapes (n,n) and (0,) do not broadcast: NumPy < 1.25
\*                             answers True with a DeprecationWarning, later ones raise
\*   (1,1) array != []       : broadcasts to an empty (1,0) array, whose truth value
\*                             is False (deprecated) before NumPy 2.2 and an error after
density_ne_empty(d, np) ==
    IF d = EmptyList THEN "false"
    ELSE IF d[1] > 1 THEN (IF np = "legacy" THEN "true" ELSE "raise")
    ELSE (IF np = "v2_2" THEN "raise" ELSE "false")

\* `if self.energy.get("scf", 0)`
energy_get_scf_has_key(e) == "scf" \in DOMAIN e
energy_get_scf(e) == IF "scf" \in DOMAIN e THEN e["scf"] # 0 ELSE FALSE

\* state after self.solve_scf(**kw)
solve_scf(kw) ==
    LET set == apply_kwargs(heap[scf_object], kw)
        done == kernel(set)
    IN  /\ heap' = [heap EXCEPT ![scf_object] = done]
        /\ energy' = [k \in DOMAIN energy \cup {"scf"} |->
                         IF k = "scf" THEN the(done.e_tot) ELSE energy[k]]
        /\ density' = make_rdm1(done, nbasis)
        /\ kernel_at' = Some([settings |-> set, kwargs |-> kw])
        /\ runs' = runs + 1

NoCall == [op |-> "init", had |-> None, solves |-> 0, outcome |-> "return",
           ret |-> None, kwargs |-> <<>>]

ScfInit ==
    /\ numpy \in NumpyBuilds
    /\ nbasis \in {1, 2}
    /\ LET c == copy([i \in Ids |-> NewScfObject], 1)
       IN  /\ heap = c.heap
           /\ scf_object = 1
           /\ _scf_object = c.ref
    /\ density = EmptyList
    /\ energy = EmptyDict
    /\ call = NoCall
    /\ streak = 0
    /\ kernel_at = None
    /\ runs = 0

\* ScfMethod.get_density
GetDensity ==
    LET test == density_ne_empty(density, numpy)
    IN  \/ /\ test = "true"
           /\ call' = [op |-> "get_density", had |-> Some(density), solves |-> 0,
                       outcome |-> "return", ret |-> Some(density), kwargs |-> <<>>]
           /\ streak' = IF call.op = "get_density" THEN streak ELSE 0
           /\ UNCHANGED <<numpy, nbasis, heap, scf_object, _scf_object, density,
                          energy, kernel_at, runs>>
        \/ /\ test = "false"
           /\ runs < MaxRuns
           /\ solve_scf(GetterKwargs)
           /\ call' = [op |-> "get_density", had |-> Some(density), solves |-> 1,
                       outcome |-> "return", ret |-> Some(density'), kwargs |-> GetterKwargs]
           /\ streak' = (IF call.op = "get_density" THEN streak ELSE 0) + 1
           /\ UNCHANGED <<numpy, nbasis, scf_object, _scf_object>>
        \/ /\ test = "raise"
           /\ call' = [op |-> "get_density", had |-> Some(density), solves |-> 0,
                       outcome |-> "ValueError", ret |-> None, kwargs |-> <<>>]
           /\ streak' = IF call.op = "get_density" THEN streak ELSE 0
           /\ UNCHANGED <<numpy, nbasis, heap, scf_object, _scf_object, density,
                          energy, kernel_at, runs>>

\* ScfMethod.get_energy
GetEnergy ==
    LET had == IF "scf" \in DOMAIN energy THEN Some(energy["scf"]) ELSE None
    IN  \/ /\ energy_get_scf(energy)
           /\ call' = [op |-> "get_energy", had |-> had, solves |-> 0,
                       outcome |-> "return", ret |-> Some(energy["scf"]), kwargs |-> <<>>]
           /\ streak' = 0
           /\ UNCHANGED <<numpy, nbasis, heap, scf_object, _scf_object, density,
                          energy, kernel_at, runs>>
        \/ /\ ~energy_get_scf(energy)
           /\ runs < MaxRuns
           /\ solve_scf(GetterKwargs)
           /\ call' = [op |-> "get_energy", had |-> had, solves |-> 1,
                       outcome |-> "return", ret |-> Some(energy'["scf"]), kwargs |-> GetterKwargs]
           /\ streak' = 0
           /\ UNCHANGED <<numpy, nbasis, scf_object, _scf_object>>

\* ScfPyScf.solve_scf, called by the user
SolveScf ==
    \E kw \in Kwargs :
        /\ runs < MaxRuns
        /\ solve_scf(kw)
        /\ call' = [op |-> "solve_scf", had |-> None, solves |-> 1,
                    outcome |-> "return", ret |-> None, kwargs |-> kw]
        /\ streak' = 0
        /\ UNCHANGED <<numpy, nbasis, scf_object, _scf_object>>

\* ScfPyScf.perturb_fock(pot), pot an ndarray
PerturbFock ==
    \E pot \in Potentials :
        LET ref == get_hcore(heap[scf_object])
            sum == pot + ref
        IN  /\ sum \in (Hcore0 - MaxShift)..(Hcore0 + MaxShift)
            /\ heap' = [heap EXCEPT ![scf_object].get_hcore = Some(sum)]
            /\ call' = [op |-> "perturb_fock", had |-> None, solves |-> 0,
                        outcome |-> "return", ret |-> None, kwargs |-> <<>>]
            /\ streak' = 0
            /\ UNCHANGED <<numpy, nbasis, scf_object, _scf_object, density, energy,
                           kernel_at, runs>>

\* ScfPyScf.restore_scf_object
RestoreScfObject ==
    LET c == copy(heap, _scf_object)
    IN  /\ heap' = c.heap
        /\ scf_object' = c.ref
        /\ call' = [op |-> "restore_scf_object", had |-> None, solves |-> 0,
                    outcome |-> "return", ret |-> None, kwargs |-> <<>>]
        /\ streak' = 0
        /\ UNCHANGED <<numpy, nbasis, _scf_object, density, energy, kernel_at, runs>>

\* =========================================================================
\*  run_co_h2o_psi4: the loop over grid blocks
\* =========================================================================

\* Thomas-Fermi constant 2.8712, in 1/1000
cf == 2871

Weights == {1, 2}
RhoA == {1, 2}
RhoB == {0, 1}
\* a grid point: its weight and the values there of rhoa and rhob, the densities
\* of dma_sup and dmb_sup.  dm_both = dma_sup + dmb_sup (block_diag), and the
\* einsum that gives rho is linear in the density matrix, so rho = rhoa + rhob.
Points == [w : Weights, rhoa : RhoA, rhob : RhoB]
Blocks == UNION {[1..n -> Points] : n \in 1..MaxPoints}
Grids == UNION {[1..n -> Blocks] : n \in 1..MaxBlocks}

w_of(block) == [p \in DOMAIN block |-> block[p].w]
rhoa_of(block) == [p \in DOMAIN block |-> block[p].rhoa]
rhob_of(block) == [p \in DOMAIN block |-> block[p].rhob]
rho_of(block) == [p \in DOMAIN block |-> block[p].rhoa + block[p].rhob]

\* rho^(5/3) and rho^(4/3) at the densities of the model, in 1/1000
pow_5_3(r) == CASE r = 0 -> 0 [] r = 1 -> 1000 [] r = 2 -> 3175 [] r = 3 -> 6240
                [] r = 4 -> 10079
pow_4_3(r) == CASE r = 0 -> 0 [] r = 1 -> 1000 [] r = 2 -> 2520 [] r = 3 -> 4327
                [] r = 4 -> 6350

\* compute_kinetic_tf(rho): et = cf * rho^(5/3), pointwise
compute_kinetic_tf(rho) == [p \in DOMAIN rho |-> (cf * pow_5_3(rho[p])) \div 1000]

\* the "V" vector superfunc.compute_functional computes for a density: the
\* energy density of the LDA functional (its exchange part, -0.7386 rho^(4/3))
functional_V(rho) == [p \in DOMAIN rho |-> 0 - ((739 * pow_4_3(rho[p])) \div 1000)]

\* the handle compute_functional returns on its n-th call of an iteration: always
\* the same result vectors when the functional object reuses them, new ones otherwise
Handles == 0..3
result_handle(n) == IF shared_values THEN 0 ELSE n

\* np.einsum('a,a->', w, v)
RECURSIVE einsum_aa(_, _)
einsum_aa(w, v) ==
    IF w = <<>> THEN 0 ELSE Head(w) * Head(v) + einsum_aa(Tail(w), Tail(v))

FdeIdle ==
    /\ shared_values = FALSE
    /\ grid = <<>>
    /\ pc = "idle"
    /\ b = 0
    /\ values_ = [h \in Handles |-> <<>>]
    /\ ret = None /\ reta = None /\ retb = None
    /\ exc_a = 0 /\ exc_b = 0 /\ exc_tot = 0
    /\ et_a = 0 /\ et_b = 0 /\ et_tot = 0
    /\ enad_xc = None /\ enad_t = None

\* lines 140-150: the state on entering the loop
FdeInit ==
    /\ shared_values \in BOOLEAN
    /\ grid \in Grids
    /\ pc = "AB"
    /\ b = 0
    /\ values_ = [h \in Handles |-> <<>>]
    /\ ret = None /\ reta = None /\ retb = None
    /\ exc_a = 0 /\ exc_b = 0 /\ exc_tot = 0
    /\ et_a = 0 /\ et_b = 0 /\ et_tot = 0
    /\ enad_xc = None /\ enad_t = None

\* lines 151-187: block b, "Compute the AB functional part"
FdeBlockAB ==
    /\ pc = "AB"
    /\ LET block == grid[b + 1]
           w == w_of(block)
           rho == rho_of(block)
           h == result_handle(1)
           vals == [values_ EXCEPT ![h] = functional_V(rho)]
           vk_tot == vals[h]
           et == compute_kinetic_tf(rho)
       IN  /\ values_' = vals
           /\ ret' = Some(h)
           /\ et_tot' = et_tot + einsum_aa(w, et)
           /\ exc_tot' = exc_tot + einsum_aa(w, vk_tot)
    /\ pc' = "A"
    /\ UNCHANGED <<shared_values, grid, b, reta, retb, exc_a, exc_b, et_a, et_b,
                   enad_xc, enad_t>>

\* lines 189-196: "Compute the A functional part"
FdeBlockA ==
    /\ pc = "A"
    /\ LET block == grid[b + 1]
           w == w_of(block)
           rhoa == rhoa_of(block)
           h == result_handle(2)
           vals == [values_ EXCEPT ![h] = functional_V(rhoa)]
           vk_a == vals[the(ret)]
           et == compute_kinetic_tf(rhoa)
       IN  /\ values_' = vals
           /\ reta' = Some(h)
           /\ et_a' = et_a + einsum_aa(w, et)
           /\ exc_a' = exc_a + einsum_aa(w, vk_a)
    /\ pc' = "B"
    /\ UNCHANGED <<shared_values, grid, b, ret, retb, exc_b, exc_tot, et_b, et_tot,
                   enad_xc, enad_t>>

\* lines 198-219: "Compute the B functional part", and the end of the iteration
FdeBlockB ==
    /\ pc = "B"
    /\ LET block == grid[b + 1]
           w == w_of(block)
           rhob == rhob_of(block)
           h == result_handle(3)
           vals == [values_ EXCEPT ![h] = functional_V(rhob)]
           vk_b == vals[h]
           et == compute_kinetic_tf(rhob)
       IN  /\ values_' = vals
           /\ retb' = Some(h)
           /\ et_b' = et_b + einsum_aa(w, et)
           /\ exc_b' = exc_b + einsum_aa(w, vk_b)
    /\ b' = b + 1
    /\ pc' = IF b + 1 < Len(grid) THEN "AB" ELSE "end"
    /\ UNCHANGED <<shared_values, grid, ret, reta, exc_a, exc_tot, et_a, et_tot,
                   enad_xc, enad_t>>

\* lines 227-228
FdeEnergies ==
    /\ pc = "end"
    /\ enad_xc' = Some(exc_tot - exc_a - exc_b)
    /\ enad_t' = Some(et_tot - et_a - et_b)
    /\ pc' = "done"
    /\ UNCHANGED <<shared_values, grid, b, values_, ret, reta, retb,
                   exc_a, exc_b, exc_tot, et_a, et_b, et_tot>>

Init == ScfInit /\ FdeIdle

Next ==
    \/ GetDensity /\ UNCHANGED fdeVars
    \/ GetEnergy /\ UNCHANGED fdeVars
    \/ SolveScf /\ UNCHANGED fdeVars
    \/ PerturbFock /\ UNCHANGED fdeVars
    \/ RestoreScfObject /\ UNCHANGED fdeVars

Spec == Init /\ [][Next]_vars

\* the script alone: no ScfPyScf object takes part
InitFde == ScfInit /\ numpy = "legacy" /\ nbasis = 1 /\ FdeInit

NextFde ==
    \/ FdeBlockAB /\ UNCHANGED scfVars
    \/ FdeBlockA /\ UNCHANGED scfVars
    \/ FdeBlockB /\ UNCHANGED scfVars
    \/ FdeEnergies /\ UNCHANGED scfVars

SpecFde == InitFde /\ [][NextFde]_vars

\* =========================================================================
\*  Properties
\* =========================================================================

\* C1: get_density() is a cache over solve_scf: with a density stored it
\* returns that density and does not invoke solve_scf; with none stored it
\* invokes solve_scf once, with conv_tol=1e-12, and returns the density that
\* run stored; so consecutive get_density() calls run the kernel at most once.
C1_GetDensityCaches ==
    /\ call.op = "get_density" /\ call.had # Some(EmptyList) =>
          /\ call.outcome = "return"
          /\ call.solves = 0
          /\ call.ret = call.had
    /\ call.op = "get_density" /\ call.had = Some(EmptyList) =>
          /\ call.outcome = "return"
          /\ call.solves = 1
          /\ call.kwargs = GetterKwargs
          /\ call.ret = Some(density)
    /\ streak <= 1

\* C2, as stated: get_energy() returns energy["scf"] without invoking
\* solve_scf whenever a value is stored, whatever the value; with none stored
\* it invokes solve_scf once (conv_tol=1e-12) and returns the energy it stored.
C2_StoredEnergyAnyValue ==
    call.op = "get_energy" =>
        /\ call.had # None => call.solves = 0 /\ call.ret = call.had
        /\ call.had = None =>
              /\ call.solves = 1
              /\ call.kwargs = GetterKwargs
              /\ call.ret = Some(energy["scf"])
              /\ call.ret = heap[scf_object].e_tot

\* C2, amended: get_energy() returns the stored energy["scf"] without invoking
\* solve_scf when it is stored and not zero; when none is stored, or the stored
\* value is zero, it invokes solve_scf once (conv_tol=1e-12) and returns the
\* energy that run stored.
C2_StoredEnergyNonZero ==
    call.op = "get_energy" =>
        LET stored == call.had # None /\ the(call.had) # 0
        IN  /\ stored => call.solves = 0 /\ call.ret = call.had
            /\ ~stored =>
                  /\ call.solves = 1
                  /\ call.kwargs = GetterKwargs
                  /\ call.ret = Some(energy["scf"])
                  /\ call.ret = heap[scf_object].e_tot

\* a get_energy() call that found a zero energy stored and ran solve_scf again
C2_Witness ==
    /\ call.op = "get_energy"
    /\ call.had = Some(0)
    /\ call.solves = 1
    /\ call.ret # call.had

\* C3: at the moment kernel() runs, the solver's setting named k equals
\* scfkwargs[k], for every key k passed to solve_scf.
C3_KwargsApplied ==
    kernel_at # None =>
        LET at == the(kernel_at)
        IN  \A i \in DOMAIN at.kwargs :
                at.settings[at.kwargs[i].key] = Some(at.kwargs[i].val)

RECURSIVE nonadditive(_, _, _)
nonadditive(F(_), g, n) ==
    IF n = 0 THEN 0
    ELSE LET block == g[n]
         IN  nonadditive(F, g, n - 1)
             + einsum_aa(w_of(block), F(rho_of(block)))
             - einsum_aa(w_of(block), F(rhoa_of(block)))
             - einsum_aa(w_of(block), F(rhob_of(block)))

====
